---- MODULE Spec2Model ----
(***************************************************************************)
(* A model of wordcount.c: reader threads tokenize character streams and   *)
(* record every word in one shared table under one mutex, a printer thread *)
(* reports the table periodically, and main joins the readers, cancels the *)
(* printer and prints the totals once more.                                *)
(*                                                                         *)
(* Characters are their codes (65 = 'A', 98 = 'b', 32 = ' '), a word is    *)
(* the sequence of the codes of its characters, a stream is the sequence   *)
(* of the bytes getc delivers before end-of-file.                          *)
(***************************************************************************)
EXTENDS Integers, Sequences, FiniteSets, TLC

\* ------------------------------------------------------------------ bounds

\* Longest stream enumerated for a program started with stdin alone.
MaxLen == 4

\* Periodic reports the printer thread starts before it only sleeps.
MaxReports == 2

\* ------------------------------------------------------- program constants

WC_IN_WORD == 1

WC_OUT_OF_WORD == 0

\* wc_Word words[128] in wc_Context
WC_MAX_WORDS == 128

\* char buf[128] in wc_read_fd
WC_BUF_SIZE == 128

\* pthread_t t[10]; wc_Thread_Context tctxt[10] in main
WC_MAX_THREADS == 10

\* stdio's EOF
EOF == -1

\* A source that opens and delivers the bytes s, and one fopen returns NULL for
File(s) == [open |-> TRUE, bytes |-> s]

NoFile == [open |-> FALSE, bytes |-> <<>>]

\* ------------------------------------------------------------------ inputs

\* 'A', 'b' and the delimiter ' '
Alphabet == {65, 98, 32}

RECURSIVE Streams(_)
Streams(n) ==
  IF n = 0 THEN {<<>>}
  ELSE LET S == Streams(n - 1)
       IN S \cup {Append(s, c) : s \in {t \in S : Len(t) = n - 1}, c \in Alphabet}

\* "the cat sat" and "the dog sat"
TheCatSat == <<116, 104, 101, 32, 99, 97, 116, 32, 115, 97, 116>>

TheDogSat == <<116, 104, 101, 32, 100, 111, 103, 32, 115, 97, 116>>

\* The runs with named sources: stdin's stream, then the stream of each argument
\* ("b A " with "b b ", "A b" with "b", "b " with an empty file, with "A " and
\* "b ", with a file that does not open, and the two sentences).
FileInputs ==
  { << File(<<98, 32, 65, 32>>), File(<<98, 32, 98, 32>>) >>,
    << File(<<65, 32, 98>>), File(<<98>>) >>,
    << File(<<98, 32>>), File(<<>>) >>,
    << File(<<98, 32>>), File(<<65, 32>>), File(<<98, 32>>) >>,
    << File(<<98, 32>>), NoFile >>,
    << File(<<>>), File(<<65, 32>>), NoFile >>,
    << File(TheCatSat), File(TheDogSat) >> }

\* One run's sources: stdin first (thread 0), then one per argument.
Inputs == {<<File(s)>> : s \in Streams(MaxLen)} \cup FileInputs

\* More sources than the thread arrays hold: stdin and 10 arguments, every file
\* empty; and the same with a last argument that does not open.
TooManyInputs ==
  { <<File(<<98, 32>>)>> \o [k \in 1 .. WC_MAX_THREADS |-> File(<<>>)],
    <<File(<<98, 32>>)>> \o [k \in 1 .. WC_MAX_THREADS |->
                               IF k < WC_MAX_THREADS THEN File(<<>>) ELSE NoFile] }

\* 128 distinct words of two letters, "aa" .. "hp", in ascending order
FullWord(k) == <<97 + (k \div 16), 97 + (k % 16)>>

FullWords(n) == [k \in 1 .. n |-> FullWord(k - 1)]

\* the stream that delivers the first n of them, a blank after each
FullPrefix(n) ==
  [j \in 1 .. 3 * n |->
     IF (j - 1) % 3 = 2 THEN 32 ELSE FullWord((j - 1) \div 3)[((j - 1) % 3) + 1]]

\* The full tables tried: how many of the words are recorded, and what stdin
\* delivers after them: 127 and "A b ", 128 and "aa b ".
FullCases == { <<WC_MAX_WORDS - 1, <<65, 32, 98, 32>> >>,
               <<WC_MAX_WORDS, <<97, 97, 32, 98, 32>> >> }

\* ------------------------------------------------------------------- state

VARIABLES
  input,      \* input[i+1]: source i (i = 0: stdin, then argv[i])
  status,     \* "running", "exit0", "exit1" (EXIT_FAILURE), "crashed"
  mpc,        \* main's position
  mi,         \* main's loop variable i
  rd,         \* rd[i+1]: reader thread i: pc, pos (bytes read), state, buf
              \* (buf[0 .. i-1]), found; emitted: history, the words it passed
              \* to the callback
  pr,         \* pr[p]: the wc_print_words frame of p ("print" thread, "main")
  nrep,       \* reports the printer thread has started
  cancelReq,  \* pthread_cancel(print) was called and has not acted yet
  mtx,        \* the owner of mtx: <<"reader", i>>, <<"print">>, <<"main">>; or Free
  table,      \* ctxt.words[0 .. ctxt.len-1]
  calls,      \* history: the words recorded, in the order the lock was taken
  reports     \* history: the reports written to stdout

vars == <<input, status, mpc, mi, rd, pr, nrep, cancelReq, mtx, table, calls, reports>>

argc == Len(input)

Readers == 0 .. argc - 1

Printers == {"print", "main"}

Free == <<"free">>

\* ------------------------------------------------------------ pure helpers

\* char c = getc(fd): the int is narrowed to a (signed) char
ToChar(v) == IF v = EOF THEN EOF ELSE IF v >= 128 THEN v - 256 ELSE v

\* (unsigned char) c
ToUChar(c) == IF c < 0 THEN c + 256 ELSE c

isalpha(u) == (u >= 65 /\ u <= 90) \/ (u >= 97 /\ u <= 122)

tolower(u) == IF u >= 65 /\ u <= 90 THEN u + 32 ELSE u

\* the sign of strcmp(a, b)
strcmp(a, b) ==
  LET n == IF Len(a) < Len(b) THEN Len(a) ELSE Len(b)
      diff == {k \in 1 .. n : a[k] # b[k]}
      first == CHOOSE k \in diff : \A j \in diff : k <= j
  IN IF diff # {} THEN (IF a[first] < b[first] THEN -1 ELSE 1)
     ELSE IF Len(a) < Len(b) THEN -1
     ELSE IF Len(a) > Len(b) THEN 1
     ELSE 0

\* Mutant of wc_compare_words: the counts are compared the other way round.
wc_compare_words_ascending(a, b) ==
  IF a.freq = b.freq THEN strcmp(a.word, b.word) ELSE a.freq - b.freq

wc_compare_words(a, b) ==
  IF a.freq = b.freq THEN strcmp(a.word, b.word) ELSE b.freq - a.freq

\* Mutant of qsort: the elements stay in the order of their insertion.
qsort_none(s) == s

\* qsort(ctxt->words, ctxt->len, sizeof(wc_Word), wc_compare_words): the
\* elements in the order of the comparison. Elements that compare equal hold the
\* same word and count, so that their order does not show.
qsort(s) ==
  LET place == [k \in 1 .. Len(s) |->
                 1 + Cardinality({m \in 1 .. Len(s) :
                       \/ wc_compare_words(s[m], s[k]) < 0
                       \/ wc_compare_words(s[m], s[k]) = 0 /\ m < k})]
  IN [j \in 1 .. Len(s) |-> s[CHOOSE k \in 1 .. Len(s) : place[k] = j]]

\* wc_store_word, the lookup loop: the last index i with words[i].word equal to
\* buf, -1 for none
wc_store_word_lookup(t, buf) ==
  LET hits == {k \in 1 .. Len(t) : t[k].word = buf}
  IN IF hits = {} THEN -1 ELSE (CHOOSE k \in hits : \A j \in hits : j <= k) - 1

\* wc_store_word, the store: the outcomes [words, crash]. A new word stored at
\* index 128 is written past ctxt.words (undefined): the process dies, or the
\* entry lands in the memory behind the array and len counts it, or the bytes of
\* the word land on ctxt.len, which follows the array: a one-letter word with
\* code c makes len c, words[c].freq becomes 1 and len c + 1.
wc_store_word_write(t, buf, found) ==
  IF found # -1
    THEN {[words |-> [t EXCEPT ![found + 1].freq = @ + 1], crash |-> FALSE]}
  ELSE IF Len(t) < WC_MAX_WORDS
    THEN {[words |-> Append(t, [word |-> buf, freq |-> 1]), crash |-> FALSE]}
  ELSE {[words |-> t, crash |-> TRUE],
        [words |-> Append(t, [word |-> buf, freq |-> 1]), crash |-> FALSE]}
       \cup {[words |-> [SubSeq(t, 1, buf[1] + 1) EXCEPT ![buf[1] + 1].freq = 1],
              crash |-> FALSE] : x \in {n \in {Len(buf)} : n = 1}}

Running == status = "running"

\* -------------------------------------------------------------------- Init

InitWith(in) ==
  /\ input = in
  /\ status = "running"
  /\ mpc = "create0"
  /\ mi = 0
  /\ rd = [i \in 1 .. Len(in) |->
             [pc |-> "none", pos |-> 0, state |-> WC_OUT_OF_WORD,
              buf |-> <<>>, found |-> -1, emitted |-> <<>>]]
  /\ pr = [p \in Printers |-> [pc |-> "none", i |-> 0]]
  /\ nrep = 0
  /\ cancelReq = FALSE
  /\ mtx = Free
  /\ table = <<>>
  /\ calls = <<>>
  /\ reports = <<>>

Init == \E in \in Inputs : InitWith(in)

\* The runs with more sources than the thread arrays hold.
InitArgs == \E in \in TooManyInputs : InitWith(in)

\* A run with stdin alone, at the moment when the reader has recorded the first
\* n of the 128 words once each, every thread is started, main waits in its
\* first pthread_join and the printer thread has not yet woken.
InitFullWith(n, rest) ==
  /\ input = <<File(FullPrefix(n) \o rest)>>
  /\ status = "running"
  /\ mpc = "join"
  /\ mi = 0
  /\ rd = <<[pc |-> "getc", pos |-> Len(FullPrefix(n)), state |-> WC_OUT_OF_WORD,
             buf |-> <<>>, found |-> -1, emitted |-> FullWords(n)]>>
  /\ pr = [p \in Printers |-> [pc |-> IF p = "print" THEN "sleep" ELSE "none", i |-> 0]]
  /\ nrep = 0
  /\ cancelReq = FALSE
  /\ mtx = Free
  /\ table = [k \in 1 .. n |-> [word |-> FullWord(k - 1), freq |-> 1]]
  /\ calls = FullWords(n)
  /\ reports = <<>>

InitFull == \E c \in FullCases : InitFullWith(c[1], c[2])

\* ----------------------------------------------------------------- readers

\* Mutant of Getc: the letter is stored without tolower.
GetcKeepsCase(i) ==
  /\ Running
  /\ rd[i + 1].pc = "getc"
  /\ LET r == rd[i + 1]
         s == input[i + 1].bytes
         v == IF r.pos < Len(s) THEN s[r.pos + 1] ELSE EOF
         c == ToChar(v)
         u == ToUChar(c)
     IN IF c = EOF
          THEN /\ rd' = [rd EXCEPT ![i + 1].pc = "done"]
               /\ status' = status
        ELSE IF ~isalpha(u)
          THEN IF r.state = WC_IN_WORD
                 THEN /\ rd' = [rd EXCEPT ![i + 1].pos = @ + 1,
                                          ![i + 1].pc = "cb_lock",
                                          ![i + 1].emitted = Append(@, r.buf)]
                      /\ status' \in IF Len(r.buf) < WC_BUF_SIZE
                                       THEN {status} ELSE {status, "crashed"}
                 ELSE /\ rd' = [rd EXCEPT ![i + 1].pos = @ + 1,
                                          ![i + 1].buf = <<>>,
                                          ![i + 1].state = WC_OUT_OF_WORD]
                      /\ status' = status
        ELSE /\ rd' = [rd EXCEPT ![i + 1].pos = @ + 1,
                                 ![i + 1].state = WC_IN_WORD,
                                 ![i + 1].buf = Append(@, u)]
             /\ status' \in IF Len(r.buf) < WC_BUF_SIZE
                              THEN {status} ELSE {status, "crashed"}
  /\ UNCHANGED <<input, mpc, mi, pr, nrep, cancelReq, mtx, table, calls, reports>>

\* One iteration of the loop of wc_read_fd, up to the call of the callback.
Getc(i) ==
  /\ Running
  /\ rd[i + 1].pc = "getc"
  /\ LET r == rd[i + 1]
         s == input[i + 1].bytes
         v == IF r.pos < Len(s) THEN s[r.pos + 1] ELSE EOF
         c == ToChar(v)
         u == ToUChar(c)
     IN IF c = EOF
          THEN /\ rd' = [rd EXCEPT ![i + 1].pc = "done"]
               /\ status' = status
        ELSE IF ~isalpha(u)
          THEN IF r.state = WC_IN_WORD
                 THEN /\ rd' = [rd EXCEPT ![i + 1].pos = @ + 1,
                                          ![i + 1].pc = "cb_lock",
                                          ![i + 1].emitted = Append(@, r.buf)]
                      /\ status' \in IF Len(r.buf) < WC_BUF_SIZE
                                       THEN {status} ELSE {status, "crashed"}
                 ELSE /\ rd' = [rd EXCEPT ![i + 1].pos = @ + 1,
                                          ![i + 1].buf = <<>>,
                                          ![i + 1].state = WC_OUT_OF_WORD]
                      /\ status' = status
        ELSE /\ rd' = [rd EXCEPT ![i + 1].pos = @ + 1,
                                 ![i + 1].state = WC_IN_WORD,
                                 ![i + 1].buf = Append(@, tolower(u))]
             /\ status' \in IF Len(r.buf) < WC_BUF_SIZE
                              THEN {status} ELSE {status, "crashed"}
  /\ UNCHANGED <<input, mpc, mi, pr, nrep, cancelReq, mtx, table, calls, reports>>

\* Mutant of CbLock: the callback does not wait for the mutex.
CbLockNoMutex(i) ==
  /\ Running
  /\ rd[i + 1].pc = "cb_lock"
  /\ mtx' = <<"reader", i>>
  /\ rd' = [rd EXCEPT ![i + 1].pc = "cb_lookup"]
  /\ calls' = Append(calls, rd[i + 1].buf)
  /\ UNCHANGED <<input, status, mpc, mi, pr, nrep, cancelReq, table, reports>>

\* wc_new_word_callback: pthread_mutex_lock
CbLock(i) ==
  /\ Running
  /\ rd[i + 1].pc = "cb_lock"
  /\ mtx = Free
  /\ mtx' = <<"reader", i>>
  /\ rd' = [rd EXCEPT ![i + 1].pc = "cb_lookup"]
  /\ calls' = Append(calls, rd[i + 1].buf)
  /\ UNCHANGED <<input, status, mpc, mi, pr, nrep, cancelReq, table, reports>>

\* wc_store_word: the lookup loop
CbLookup(i) ==
  /\ Running
  /\ rd[i + 1].pc = "cb_lookup"
  /\ rd' = [rd EXCEPT ![i + 1].pc = "cb_store",
                      ![i + 1].found = wc_store_word_lookup(table, rd[i + 1].buf)]
  /\ UNCHANGED <<input, status, mpc, mi, pr, nrep, cancelReq, mtx, table, calls, reports>>

\* wc_store_word: the new entry, or the increment
CbStore(i) ==
  /\ Running
  /\ rd[i + 1].pc = "cb_store"
  /\ \E o \in wc_store_word_write(table, rd[i + 1].buf, rd[i + 1].found) :
       /\ table' = o.words
       /\ status' = IF o.crash THEN "crashed" ELSE status
  /\ rd' = [rd EXCEPT ![i + 1].pc = "cb_qsort"]
  /\ UNCHANGED <<input, mpc, mi, pr, nrep, cancelReq, mtx, calls, reports>>

\* wc_new_word_callback: qsort
CbQsort(i) ==
  /\ Running
  /\ rd[i + 1].pc = "cb_qsort"
  /\ table' = qsort(table)
  /\ rd' = [rd EXCEPT ![i + 1].pc = "cb_unlock"]
  /\ UNCHANGED <<input, status, mpc, mi, pr, nrep, cancelReq, mtx, calls, reports>>

\* wc_new_word_callback: pthread_mutex_unlock, and the rest of the iteration of
\* wc_read_fd that called it (i = 0; state = WC_OUT_OF_WORD)
CbUnlock(i) ==
  /\ Running
  /\ rd[i + 1].pc = "cb_unlock"
  /\ mtx' = Free
  /\ rd' = [rd EXCEPT ![i + 1].pc = "getc",
                      ![i + 1].buf = <<>>,
                      ![i + 1].state = WC_OUT_OF_WORD]
  /\ UNCHANGED <<input, status, mpc, mi, pr, nrep, cancelReq, table, calls, reports>>

\* --------------------------------------------------------- wc_print_words

\* Mutant of PrintLock: the report does not wait for the mutex.
PrintLockNoMutex(p) ==
  /\ Running
  /\ pr[p].pc = "lock"
  /\ mtx' = <<p>>
  /\ pr' = [pr EXCEPT ![p].pc = "header"]
  /\ UNCHANGED <<input, status, mpc, mi, rd, nrep, cancelReq, table, calls, reports>>

\* pthread_mutex_lock
PrintLock(p) ==
  /\ Running
  /\ pr[p].pc = "lock"
  /\ mtx = Free
  /\ mtx' = <<p>>
  /\ pr' = [pr EXCEPT ![p].pc = "header"]
  /\ UNCHANGED <<input, status, mpc, mi, rd, nrep, cancelReq, table, calls, reports>>

\* printf ("\nCurrent word frequency count: \n"), and i = 0
PrintHeader(p) ==
  /\ Running
  /\ pr[p].pc = "header"
  /\ reports' = Append(reports, [by |-> p, lines |-> <<>>, done |-> FALSE])
  /\ pr' = [pr EXCEPT ![p].pc = "line", ![p].i = 0]
  /\ UNCHANGED <<input, status, mpc, mi, rd, nrep, cancelReq, mtx, table, calls>>

\* One turn of the loop: i < ctxt->len, and printf of words[i]
PrintLine(p) ==
  /\ Running
  /\ pr[p].pc = "line"
  /\ IF pr[p].i < Len(table)
       THEN /\ reports' = [reports EXCEPT ![Len(reports)].lines =
                             Append(@, table[pr[p].i + 1])]
            /\ pr' = [pr EXCEPT ![p].i = @ + 1]
       ELSE /\ pr' = [pr EXCEPT ![p].pc = "footer"]
            /\ reports' = reports
  /\ UNCHANGED <<input, status, mpc, mi, rd, nrep, cancelReq, mtx, table, calls>>

\* Mutant of PrintFooter: the report empties the table it has printed.
PrintFooterClears(p) ==
  /\ Running
  /\ pr[p].pc = "footer"
  /\ reports' = [reports EXCEPT ![Len(reports)].done = TRUE]
  /\ pr' = [pr EXCEPT ![p].pc = "unlock"]
  /\ table' = <<>>
  /\ UNCHANGED <<input, status, mpc, mi, rd, nrep, cancelReq, mtx, calls>>

\* printf ("----------------------------- \n")
PrintFooter(p) ==
  /\ Running
  /\ pr[p].pc = "footer"
  /\ reports' = [reports EXCEPT ![Len(reports)].done = TRUE]
  /\ pr' = [pr EXCEPT ![p].pc = "unlock"]
  /\ UNCHANGED <<input, status, mpc, mi, rd, nrep, cancelReq, mtx, table, calls>>

\* pthread_mutex_unlock and the return: the printer thread sleeps again, main
\* goes on to exit
PrintUnlock(p) ==
  /\ Running
  /\ pr[p].pc = "unlock"
  /\ mtx' = Free
  /\ pr' = [pr EXCEPT ![p].pc = IF p = "print" THEN "sleep" ELSE "returned"]
  /\ UNCHANGED <<input, status, mpc, mi, rd, nrep, cancelReq, table, calls, reports>>

\* ---------------------------------------------------------- printer thread

\* sleep(10) returns and wc_print_words is called
Wake ==
  /\ Running
  /\ pr["print"].pc = "sleep"
  /\ ~cancelReq
  /\ nrep < MaxReports
  /\ nrep' = nrep + 1
  /\ pr' = [pr EXCEPT !["print"].pc = "lock"]
  /\ UNCHANGED <<input, status, mpc, mi, rd, cancelReq, mtx, table, calls, reports>>

\* Where a pending cancellation request acts: sleep is a cancellation point,
\* printf may be one. pthread_mutex_lock and pthread_mutex_unlock are none. No
\* cleanup handler is installed: what the thread holds stays held.
CancellationPoints == {"sleep", "header", "line", "footer"}

Cancelled ==
  /\ Running
  /\ cancelReq
  /\ pr["print"].pc \in CancellationPoints
  /\ pr' = [pr EXCEPT !["print"].pc = "cancelled"]
  /\ cancelReq' = FALSE
  /\ UNCHANGED <<input, status, mpc, mi, rd, nrep, mtx, table, calls, reports>>

\* -------------------------------------------------------------------- main

\* ctxt.len = 0; tctxt[0]; pthread_create(&t[0], ..., wc_thread_read, ...)
MainCreate0 ==
  /\ Running
  /\ mpc = "create0"
  /\ rd' = [rd EXCEPT ![1].pc = "getc"]
  /\ mi' = 1
  /\ mpc' = IF 1 < argc THEN "open" ELSE "create_print"
  /\ UNCHANGED <<input, status, pr, nrep, cancelReq, mtx, table, calls, reports>>

\* One turn of for (i=1; i<argc; i++): fopen and pthread_create. tctxt[i] and
\* t[i] with i >= 10 are written past the arrays (undefined): the process dies,
\* or the write lands in the memory behind them and the program goes on.
MainOpen ==
  /\ Running
  /\ mpc = "open"
  /\ IF ~input[mi + 1].open
       THEN /\ status' \in IF mi < WC_MAX_THREADS THEN {"exit1"} ELSE {"exit1", "crashed"}
            /\ UNCHANGED <<rd, mi, mpc>>
       ELSE \E st \in IF mi < WC_MAX_THREADS THEN {status} ELSE {status, "crashed"} :
              /\ status' = st
              /\ rd' = IF st = "crashed" THEN rd ELSE [rd EXCEPT ![mi + 1].pc = "getc"]
              /\ mi' = mi + 1
              /\ mpc' = IF mi + 1 < argc THEN "open" ELSE "create_print"
  /\ UNCHANGED <<input, pr, nrep, cancelReq, mtx, table, calls, reports>>

\* pthread_create(&print, ..., wc_thread_print, ...)
MainCreatePrint ==
  /\ Running
  /\ mpc = "create_print"
  /\ pr' = [pr EXCEPT !["print"].pc = "sleep"]
  /\ mi' = 0
  /\ mpc' = "join"
  /\ UNCHANGED <<input, status, rd, nrep, cancelReq, mtx, table, calls, reports>>

\* Mutant of MainJoin: the loop does not wait for the reader to end.
MainJoinNoWait ==
  /\ Running
  /\ mpc = "join"
  /\ mi' = mi + 1
  /\ mpc' = IF mi + 1 < argc THEN "join" ELSE "cancel"
  /\ status' \in IF mi < WC_MAX_THREADS THEN {status} ELSE {status, "crashed"}
  /\ UNCHANGED <<input, rd, pr, nrep, cancelReq, mtx, table, calls, reports>>

\* One turn of for (i=0; i<argc; i++): pthread_join(t[i], &res). t[i] with
\* i >= 10 is read past the array (undefined).
MainJoin ==
  /\ Running
  /\ mpc = "join"
  /\ rd[mi + 1].pc = "done"
  /\ mi' = mi + 1
  /\ mpc' = IF mi + 1 < argc THEN "join" ELSE "cancel"
  /\ status' \in IF mi < WC_MAX_THREADS THEN {status} ELSE {status, "crashed"}
  /\ UNCHANGED <<input, rd, pr, nrep, cancelReq, mtx, table, calls, reports>>

\* pthread_cancel(print)
MainCancel ==
  /\ Running
  /\ mpc = "cancel"
  /\ cancelReq' = TRUE
  /\ mpc' = "join_print"
  /\ UNCHANGED <<input, status, mi, rd, pr, nrep, mtx, table, calls, reports>>

\* pthread_join(print, &res), then the call of wc_print_words
MainJoinPrint ==
  /\ Running
  /\ mpc = "join_print"
  /\ pr["print"].pc = "cancelled"
  /\ mpc' = "final"
  /\ pr' = [pr EXCEPT !["main"].pc = "lock"]
  /\ UNCHANGED <<input, status, mi, rd, nrep, cancelReq, mtx, table, calls, reports>>

\* exit(EXIT_SUCCESS)
MainExit ==
  /\ Running
  /\ mpc = "final"
  /\ pr["main"].pc = "returned"
  /\ status' = "exit0"
  /\ mpc' = "exited"
  /\ UNCHANGED <<input, mi, rd, pr, nrep, cancelReq, mtx, table, calls, reports>>

\* -------------------------------------------------------------------- Next

ReaderStep(i) ==
  Getc(i) \/ CbLock(i) \/ CbLookup(i) \/ CbStore(i) \/ CbQsort(i) \/ CbUnlock(i)

PrintStep(p) ==
  PrintLock(p) \/ PrintHeader(p) \/ PrintLine(p) \/ PrintFooter(p) \/ PrintUnlock(p)

PrinterStep == Wake \/ Cancelled \/ PrintStep("print")

MainStep ==
  \/ MainCreate0 \/ MainOpen \/ MainCreatePrint \/ MainJoin \/ MainCancel
  \/ MainJoinPrint \/ PrintStep("main") \/ MainExit

Next ==
  \/ \E i \in Readers : Getc(i)
  \/ \E i \in Readers : CbLock(i)
  \/ \E i \in Readers : CbLookup(i)
  \/ \E i \in Readers : CbStore(i)
  \/ \E i \in Readers : CbQsort(i)
  \/ \E i \in Readers : CbUnlock(i)
  \/ \E p \in Printers : PrintLock(p)
  \/ \E p \in Printers : PrintHeader(p)
  \/ \E p \in Printers : PrintLine(p)
  \/ \E p \in Printers : PrintFooter(p)
  \/ \E p \in Printers : PrintUnlock(p)
  \/ Wake
  \/ Cancelled
  \/ MainCreate0
  \/ MainOpen
  \/ MainCreatePrint
  \/ MainJoin
  \/ MainCancel
  \/ MainJoinPrint
  \/ MainExit

Spec == Init /\ [][Next]_vars

\* The runs with too many sources.
SpecArgs == InitArgs /\ [][Next]_vars

\* What a run does once its threads are started.
NextStarted ==
  \/ \E i \in Readers : Getc(i)
  \/ \E i \in Readers : CbLock(i)
  \/ \E i \in Readers : CbLookup(i)
  \/ \E i \in Readers : CbStore(i)
  \/ \E i \in Readers : CbQsort(i)
  \/ \E i \in Readers : CbUnlock(i)
  \/ \E p \in Printers : PrintLock(p)
  \/ \E p \in Printers : PrintHeader(p)
  \/ \E p \in Printers : PrintLine(p)
  \/ \E p \in Printers : PrintFooter(p)
  \/ \E p \in Printers : PrintUnlock(p)
  \/ Wake
  \/ Cancelled
  \/ MainJoin
  \/ MainCancel
  \/ MainJoinPrint
  \/ MainExit

\* The runs whose table is full, or one short of it.
SpecFull == InitFull /\ [][NextStarted]_vars

\* A run of n letters 'b' closed by a blank: a word as long as buf[128] or
\* one shorter.
LongRun(n) == [j \in 1 .. n + 1 |-> IF j <= n THEN 98 ELSE 32]

\* stdin carries the long run; one further file is empty.
LongInputs ==
  {<<File(LongRun(n)), File(<<>>)>> : n \in {WC_BUF_SIZE - 1, WC_BUF_SIZE}}

InitLong == \E in \in LongInputs : InitWith(in)

\* The runs whose words reach the size of buf.
SpecLong == InitLong /\ [][Next]_vars

\* 'b', the delimiter ' ' and the byte 0xFF
BytesWithFF == {98, 32, 255}

\* stdin carries a stream that may hold the byte 0xFF; one further file is
\* empty.
ByteInputs ==
  {<<File(s), File(<<>>)>> : s \in UNION {[1 .. n -> BytesWithFF] : n \in 0 .. MaxLen}}

InitBytes == \E in \in ByteInputs : InitWith(in)

\* The runs whose streams hold bytes that are not ASCII.
SpecBytes == InitBytes /\ [][Next]_vars

\* ------------------------------------------------------------------ claims

\* The calls of the callback made so far: (reader, k) for its k-th call.
CallsMade ==
  UNION {{<<i, k>> : k \in 1 .. Len(rd[i + 1].emitted)} : i \in Readers}

WordOfCall(c) == rd[c[1] + 1].emitted[c[2]]

NumCalls(w) == Cardinality({c \in CallsMade : WordOfCall(c) = w})

WordsSeen ==
  {WordOfCall(c) : c \in CallsMade} \cup {table[k].word : k \in 1 .. Len(table)}

EntriesOf(t, w) == {k \in 1 .. Len(t) : t[k].word = w}

NoCallInProgress == \A i \in Readers : rd[i + 1].pc \in {"none", "getc", "done"}

AllReadersDone == \A i \in Readers : rd[i + 1].pc = "done"

\* C1: whenever every call of wc_new_word_callback made so far has returned and
\* the distinct words fit the table, the table holds each word called with
\* exactly once, with the number of calls made with it as its count, and no
\* other word.
C1_NoLostUpdate ==
  (NoCallInProgress /\ Cardinality(WordsSeen) <= WC_MAX_WORDS) =>
    \A w \in WordsSeen :
      /\ NumCalls(w) > 0
      /\ \E k \in 1 .. Len(table) :
           EntriesOf(table, w) = {k} /\ table[k].freq = NumCalls(w)

\* Two readers have each recorded the same word, and every reader is done.
C1_Witness ==
  /\ AllReadersDone
  /\ \E c, d \in CallsMade :
       c[1] # d[1] /\ WordOfCall(c) = WordOfCall(d)
  /\ Len(table) = 2

\* The reports of p written so far.
ReportsBy(p) == {k \in 1 .. Len(reports) : reports[k].by = p}

FinalReportPrinted == \E k \in ReportsBy("main") : reports[k].done

AllSourcesOpen == \A j \in 1 .. argc : input[j].open

\* C2: when every source opens and ends (and the sources fit the thread arrays),
\* the program goes on until it has printed the final report and exited with
\* status 0: short of that, some thread can always take a step.
C2_ReachesFinalReportAndExit ==
  (AllSourcesOpen /\ argc <= WC_MAX_THREADS) =>
    \/ status = "exit0" /\ FinalReportPrinted
    \/ Running /\ ENABLED Next

PrinterStopped == pr["print"].pc = "cancelled" /\ mpc \in {"final", "exited"}

\* C3: once the printer thread has been cancelled and joined, main is not blocked
\* before its report is complete, it prints one report and no second one, every
\* reader is done by then, and the complete report lists the table.
C3_OneFinalReportAfterStop ==
  PrinterStopped =>
    /\ AllReadersDone
    /\ Cardinality(ReportsBy("main")) <= 1
    /\ \A k \in ReportsBy("main") : reports[k].done => reports[k].lines = table
    /\ status = "exit0" => FinalReportPrinted
    /\ FinalReportPrinted \/ ENABLED MainStep

\* C4: the printer thread is never terminated while it holds the mutex.
C4_NoCancelInCriticalSection ==
  pr["print"].pc = "cancelled" => mtx # <<"print">>

\* ascending lexical order of two words
LexLess(a, b) ==
  \E k \in 1 .. Len(b) :
    /\ k <= Len(a) + 1
    /\ \A j \in 1 .. k - 1 : a[j] = b[j]
    /\ k = Len(a) + 1 \/ a[k] < b[k]

\* the order of a report: descending count, then ascending word
Before(a, b) == a.freq > b.freq \/ (a.freq = b.freq /\ LexLess(a.word, b.word))

\* C5: in every report, complete or being printed, by the printer thread or by
\* main, each line comes before every later line in the order (descending count,
\* ascending word), and no word is listed twice.
C5_ReportsSorted ==
  \A k \in 1 .. Len(reports) :
    \A x, y \in 1 .. Len(reports[k].lines) :
      x < y => /\ Before(reports[k].lines[x], reports[k].lines[y])
               /\ reports[k].lines[x].word # reports[k].lines[y].word

\* The printer thread has printed a complete report of two words with different
\* counts while a reader waits to record a further word.
C5_Witness ==
  /\ \E k \in ReportsBy("print") :
       /\ reports[k].done
       /\ Len(reports[k].lines) = 2
       /\ reports[k].lines[1].freq > reports[k].lines[2].freq
  /\ \E i \in Readers : rd[i + 1].pc = "cb_lock"

CountIn(ws, w) == Cardinality({k \in 1 .. Len(ws) : ws[k] = w})

\* the tally of a sequence of words, as a set of entries
TallyOf(ws) ==
  {[word |-> w, freq |-> CountIn(ws, w)] : w \in {ws[k] : k \in 1 .. Len(ws)}}

\* a set of entries with distinct words in the order of a report
SortedReport(T) ==
  [j \in 1 .. Cardinality(T) |->
     CHOOSE e \in T : Cardinality({f \in T : Before(f, e)}) = j - 1]

RECURSIVE WordsOfStream(_, _)
WordsOfStream(s, run) ==
  IF s = <<>> THEN (IF run = <<>> THEN <<>> ELSE <<run>>)
  ELSE IF isalpha(Head(s)) THEN WordsOfStream(Tail(s), Append(run, tolower(Head(s))))
  ELSE (IF run = <<>> THEN <<>> ELSE <<run>>) \o WordsOfStream(Tail(s), <<>>)

RECURSIVE WordsOfSources(_)
WordsOfSources(n) ==
  IF n = 0 THEN <<>>
  ELSE WordsOfSources(n - 1) \o WordsOfStream(input[n].bytes, <<>>)

\* C7: the final report of a run that exits with status 0 is the tally of every
\* word of every stream, sorted by descending count, then ascending word.
C7_FinalReportIsCombinedTally ==
  status = "exit0" =>
    \E k \in ReportsBy("main") :
      reports[k].lines = SortedReport(TallyOf(WordsOfSources(argc)))

\* C8: a reader that has reached end-of-stream on a stream whose last character
\* is alphabetic has emitted the run that ends the stream as its last word.
C8_TrailingWordEmitted ==
  \A i \in Readers :
    LET s == input[i + 1].bytes
        ws == WordsOfStream(s, <<>>)
        em == rd[i + 1].emitted
    IN (rd[i + 1].pc = "done" /\ s # <<>> /\ isalpha(s[Len(s)])) =>
         (em # <<>> /\ em[Len(em)] = ws[Len(ws)])

\* The step of wc_store_word that stores a word it did not find in a full table.
StoresNewWordInFullTable ==
  \E i \in Readers :
    /\ rd[i + 1].pc = "cb_store"
    /\ rd'[i + 1].pc = "cb_qsort"
    /\ rd[i + 1].found = -1
    /\ Len(table) = WC_MAX_WORDS

\* C9: a word that is not in the table is dropped when the table is full: the
\* step leaves the entries as they are and the process running, and the table
\* never holds more entries than the words array.
C9_DroppedAtCapacity ==
  [][/\ StoresNewWordInFullTable => (table' = table /\ status' = status)
     /\ Len(table') <= WC_MAX_WORDS]_vars

\* C10: with more than 9 arguments no reader and no printer thread is ever
\* started, no slot past the thread arrays is used, and the process ends with
\* a non-zero status.
C10_TooManySourcesRejected ==
  argc - 1 > WC_MAX_THREADS - 1 =>
    /\ \A i \in Readers : rd[i + 1].pc = "none"
    /\ pr["print"].pc = "none"
    /\ mi < WC_MAX_THREADS
    /\ status \in {"running", "exit1"}

\* C11: when a named source does not open and the process exits with
\* EXIT_FAILURE, no reader thread has been started and is still running.
C11_NoReaderRunningAtOpenFailure ==
  status = "exit1" => \A i \in Readers : rd[i + 1].pc \in {"none", "done"}

\* the positions between pthread_mutex_lock and pthread_mutex_unlock
ReaderLockedPcs == {"cb_lookup", "cb_store", "cb_qsort", "cb_unlock"}

PrintLockedPcs == {"header", "line", "footer", "unlock"}

\* the positions at which the next step is a printf of wc_print_words
PrintfPcs == {"header", "line", "footer"}

\* C12: a thread about to write to stdout (a printf of wc_print_words) or to
\* read from its source (getc) does not hold the mutex.
C12_NoIOUnderLock ==
  /\ \A p \in Printers : pr[p].pc \in PrintfPcs => mtx # <<p>>
  /\ \A i \in Readers : rd[i + 1].pc = "getc" => mtx # <<"reader", i>>

\* the threads between their pthread_mutex_lock and pthread_mutex_unlock
ThreadsInCriticalSection ==
  {<<"reader", i>> : i \in {j \in Readers : rd[j + 1].pc \in ReaderLockedPcs}}
    \cup {<<p>> : p \in {q \in Printers : pr[q].pc \in PrintLockedPcs}}

\* C13: the threads at a position that reads or writes the table (the lookup,
\* the store, the sort, the lines of a report) are inside their critical
\* section, at most one thread is inside one, and it is the owner of the mutex.
C13_TableAccessUnderOneLock ==
  /\ Cardinality(ThreadsInCriticalSection) <= 1
  /\ \A t \in ThreadsInCriticalSection : mtx = t
  /\ \A i \in Readers :
       rd[i + 1].pc \in {"cb_lookup", "cb_store", "cb_qsort"} => mtx = <<"reader", i>>
  /\ \A p \in Printers : pr[p].pc = "line" => mtx = <<p>>

\* A reader stores a word while another reader and the printer thread wait for
\* the mutex.
C13_Witness ==
  /\ \E i, j \in Readers : rd[i + 1].pc = "cb_store" /\ rd[j + 1].pc = "cb_lock"
  /\ pr["print"].pc = "lock"

\* C14: once main has called pthread_cancel every reader has ended, and once
\* main is at its final report or has exited, the printer thread has been
\* cancelled and has ended.
C14_CancelAfterReadersFinishAfterJoin ==
  /\ mpc \in {"join_print", "final", "exited"} => AllReadersDone
  /\ mpc \in {"final", "exited"} => pr["print"].pc = "cancelled" /\ ~cancelReq
  /\ status = "exit0" => mpc = "exited"

\* main prints a line of its final report, after a run with two readers that
\* recorded words.
C14_Witness ==
  /\ mpc = "final"
  /\ pr["main"].pc = "line"
  /\ argc >= 2
  /\ Len(table) >= 2

\* C15: the write index i of wc_read_fd stays inside buf: a reader never holds
\* more than WC_BUF_SIZE - 1 characters of a word, so that the characters and
\* the terminator are stored inside buf[128].
C15_WriteIndexInsideBuffer ==
  \A i \in Readers : Len(rd[i + 1].buf) <= WC_BUF_SIZE - 1

\* the characters a reader has consumed
Consumed(i) == SubSeq(input[i + 1].bytes, 1, rd[i + 1].pos)

\* C16: after every step of the tokenizer the words emitted are the lower-cased
\* runs of letters of the consumed characters that a non-letter has closed, in
\* stream order and none empty; after a letter the state is WC_IN_WORD and buf
\* holds the lower-cased run read so far; after a non-letter read outside a word
\* nothing was emitted and the state is WC_OUT_OF_WORD; the word a non-letter
\* closes is emitted once and the state is WC_OUT_OF_WORD when the callback has
\* returned.
C16_TokenizerEmitsLowerCasedRuns ==
  \A i \in Readers :
    LET r == rd[i + 1]
        P == Consumed(i)
        ws == WordsOfStream(P, <<>>)
    IN r.pc # "none" =>
         /\ \A k \in 1 .. Len(r.emitted) : r.emitted[k] # <<>>
         /\ IF P # <<>> /\ isalpha(P[Len(P)])
              THEN /\ r.state = WC_IN_WORD
                   /\ r.buf # <<>>
                   /\ ws = Append(r.emitted, r.buf)
              ELSE /\ ws = r.emitted
                   /\ IF r.pc \in {"getc", "done"}
                        THEN r.state = WC_OUT_OF_WORD /\ r.buf = <<>>
                        ELSE /\ r.state = WC_IN_WORD
                             /\ r.emitted # <<>>
                             /\ r.buf = r.emitted[Len(r.emitted)]

\* A reader has read "A b " and has emitted "a", then "b".
C16_Witness ==
  \E i \in Readers :
    /\ input[i + 1].bytes = <<65, 32, 98, 32>>
    /\ rd[i + 1].emitted = << <<97>>, <<98>> >>
    /\ rd[i + 1].pc = "getc"
    /\ rd[i + 1].state = WC_OUT_OF_WORD

\* C17: a reader leaves its loop only at end-of-stream: when it is done it has
\* consumed every character of its stream.
C17_StopsOnlyAtEndOfStream ==
  \A i \in Readers :
    rd[i + 1].pc = "done" => rd[i + 1].pos = Len(input[i + 1].bytes)

\* C18: wc_print_words leaves the table as it found it: no step of a report
\* changes the entries, their counts, their order or the length, and no step of
\* any thread changes the table while a report is between its lock and its
\* unlock.
C18_ReportLeavesTableUnchanged ==
  [][((\E p \in Printers : PrintStep(p))
        \/ (\E p \in Printers : pr[p].pc \in PrintLockedPcs))
      => table' = table]_vars

\* A report of a table of two entries has been printed in full and its
\* wc_print_words is about to unlock.
C18_Witness ==
  \E p \in Printers :
    /\ pr[p].pc = "unlock"
    /\ Len(table) >= 2
    /\ reports # <<>>
    /\ reports[Len(reports)].done
    /\ Len(reports[Len(reports)].lines) = Len(table)

\* C19: whenever no thread holds the mutex the table is sorted, by descending
\* count and then by ascending word, and holds each word once; wc_print_words
\* prints it in that order without sorting.
C19_TableSortedWhenUnlocked ==
  mtx = Free =>
    \A j, k \in 1 .. Len(table) :
      j < k => /\ Before(table[j], table[k])
               /\ table[j].word # table[k].word

\* The mutex is free and "b", counted twice, stands before "a", counted once.
C19_Witness ==
  /\ mtx = Free
  /\ Len(table) = 2
  /\ table[1] = [word |-> <<98>>, freq |-> 2]
  /\ table[2] = [word |-> <<97>>, freq |-> 1]

\* the sum of the counts of the lines of a report
RECURSIVE SumOfCounts(_)
SumOfCounts(lines) ==
  IF lines = <<>> THEN 0 ELSE Head(lines).freq + SumOfCounts(Tail(lines))

\* A report has ended: its wc_print_words has printed the footer, or the thread
\* that was printing it has been cancelled.
ReportEnded(k) ==
  reports[k].done \/ (reports[k].by = "print" /\ pr["print"].pc = "cancelled")

\* C20: of two reports that have ended, one after the other, every word of the
\* earlier is in the later with a count at least as large; and when a report has
\* ended and the mutex of its wc_print_words is still held, the sum of its
\* counts is the number of callbacks that have been made.
C20_ReportsMonotonicAndSumIsCalls ==
  /\ \A j, k \in 1 .. Len(reports) :
       (j < k /\ ReportEnded(j) /\ ReportEnded(k)) =>
         \A a \in 1 .. Len(reports[j].lines) :
           \E b \in 1 .. Len(reports[k].lines) :
             /\ reports[k].lines[b].word = reports[j].lines[a].word
             /\ reports[k].lines[b].freq >= reports[j].lines[a].freq
  /\ \A p \in Printers :
       (reports # <<>> /\ mtx = <<p>> /\ pr[p].pc \in {"unlock", "cancelled"}) =>
         SumOfCounts(reports[Len(reports)].lines) = Len(calls)

====
